---- MODULE Spec2Model ----
(***************************************************************************)
(* Model of app.js: the Xero -> Google Sheets synchronisation service.     *)
(*                                                                         *)
(* Spec        the Express handlers, the refresh middleware, saveTokenSet, *)
(*             the three fetchAndUpdate* pipelines (control skeleton) and  *)
(*             the node-cron job, one action per resumption of an await.   *)
(* SpecSeq     the same handlers run one at a time, histories recorded.    *)
(* SpecReports the month loops of fetchAndUpdateProfitAndLoss and          *)
(*             fetchAndUpdateBalanceSheet over the reports the accounting  *)
(*             API returns, and the tables they build.                     *)
(* SpecInvoices the filter, sort and projection of fetchAndUpdateInvoices. *)
(* SpecSheet   the clear-then-write of the three sheets.                   *)
(***************************************************************************)
EXTENDS Integers, Sequences, FiniteSets, TLC

\* ------------------------------------------------------------------ bounds
MaxReqs == 1        \* HTTP requests that may be in flight together
MaxTok == 2         \* distinct token-set values the identity provider issues
LoopMonths == 1     \* months the P&L / balance-sheet loops iterate in Spec

VARIABLES
    tokenSet,       \* xero client: id of the token set it holds, 0 = none
    tenants,        \* xero client: length of xero.tenants
    tokenDocs,      \* the Token collection: set of [id, tok]
    expired,        \* {tokenSet} once its expires_at lies before Date.now()
    procs,          \* the handlers in flight: 0 is the cron task, 1.. HTTP
    stopped,        \* history: POST /stop succeeded, no callback saved since
    saveOverlap,    \* history: two saveTokenSet read/write windows overlapped
    hist            \* whether the handlers' histories are recorded (SpecSeq)

\* fetchAndUpdateProfitAndLoss / fetchAndUpdateBalanceSheet (SpecReports)
VARIABLES
    fn,                     \* the function running: "pl", "bs" or "none"
    rpc,                    \* where it is: "loop", "aw_clear", ..., "done"
    idx,                    \* index into dates of the next month
    zeroProfitMonthsCount,
    zeroNetAssetsCount,
    stopProcessing,
    processedMonths,
    formattedRows,
    uniqueKeys,             \* the Set, in insertion order
    sectionDataMap,         \* start -> (label -> value of that month)
    headerValues,
    zeroRun,                \* history: successive fetched months, newest
                            \* last, whose report carried no signal
    odd,                    \* history: months answered other than by the
                            \* all-zero report
    answers,                \* history: how each month of the loop was answered
    plStopped               \* history: the P&L loop stopped before the end

\* the invoice pipeline's data and the spreadsheet (SpecInvoices, SpecSheet)
VARIABLES
    invoices,               \* result.body.invoices
    accrecInvoices,
    rows,
    sheetValues             \* per sheet, the cells that hold a value, as
                            \* <<row, column, value>>

mainVars == <<tokenSet, tenants, tokenDocs, expired, procs,
              stopped, saveOverlap, hist>>

repVars == <<fn, rpc, idx, zeroProfitMonthsCount, zeroNetAssetsCount,
             stopProcessing, processedMonths, formattedRows, uniqueKeys,
             sectionDataMap, headerValues, zeroRun, odd, answers, plStopped>>

sheetVars == <<invoices, accrecInvoices, rows, sheetValues>>

vars == <<mainVars, repVars, sheetVars>>

Procs == 0..MaxReqs
Pipes == {"inv", "pl", "bs"}

\* a handler that has not started
\* the fields from noTenantIn on are history, not program state
IdleProc ==
    [kind |-> "idle", pc |-> "idle", ctx |-> "none", tok |-> 0, doc |-> 0,
     month |-> 0, resp |-> 0, noTenantIn |-> "none",
     startExp |-> FALSE, expInRun |-> FALSE, refreshCalls |-> 0,
     refreshFailed |-> {}, remote |-> {}, failed |-> {}, timedOut |-> FALSE]

\* r without its history
Erase(r) ==
    [r EXCEPT !.noTenantIn = "none", !.startExp = FALSE, !.expInRun = FALSE,
              !.refreshCalls = 0,
              !.refreshFailed = {}, !.remote = {}, !.failed = {},
              !.timedOut = FALSE]

\* Spec keeps no history: a finished handler's record is dropped at once
Keep(r) == IF hist THEN r ELSE IF r.pc = "done" THEN IdleProc ELSE Erase(r)

Active(r) == r.pc \notin {"idle", "done"}

\* xero.readTokenSet().expires_at < Date.now(); an empty token set has no
\* expires_at and the comparison is false
Expired == tokenSet # 0 /\ tokenSet \in expired

\* Token.findOne(): the first document in natural order, null (0) if none
FindOne(docs) ==
    IF docs = {} THEN 0
    ELSE CHOOSE d \in {x.id : x \in docs} : \A e \in {x.id : x \in docs} : d <= e

\* ------------------------------------------------ synchronous continuations
\* Each operator runs the code from one point up to the next await and
\* returns the handler's record there.

\* GET /BalanceSheet: res.send(htmlContent); cron: the callback returns
Finish(r, status) ==
    [r EXCEPT !.pc = "done", !.resp = status, !.ctx = "none", !.month = 0]

EndRequest(r) == IF r.kind = "balance" THEN Finish(r, 200) ELSE Finish(r, 0)

\* the freshness check at the top of a pipeline: refreshToken() is called
IssueRefresh(r, c) ==
    [r EXCEPT !.pc = "aw_refresh", !.ctx = c, !.refreshCalls = @ + 1]

\* first iteration of a month loop: await setTimeout
EnterLoop(r, c) == [r EXCEPT !.pc = "aw_delay", !.ctx = c, !.month = 1]

StartBS(r) == IF Expired THEN IssueRefresh(r, "bs") ELSE EnterLoop(r, "bs")

\* a variant that refreshes whether or not the token set has expired
StartPLAlways(r) == IssueRefresh(r, "pl")

StartPL(r) == IF Expired THEN IssueRefresh(r, "pl") ELSE EnterLoop(r, "pl")

\* fetchAndUpdateInvoices returned: cron is finished, /BalanceSheet goes on
AfterInv(r) == IF r.kind = "cron" THEN EndRequest(r) ELSE StartPL(r)

\* a variant in which /BalanceSheet goes from the invoices straight to the
\* balance sheet
PipelineEndSkipsPL(r) ==
    CASE r.ctx = "inv" -> IF r.kind = "cron" THEN EndRequest(r) ELSE StartBS(r)
      [] r.ctx = "pl" -> StartBS(r)
      [] OTHER -> EndRequest(r)

\* the end of the pipeline r.ctx, normal or through its outer catch
PipelineEnd(r) ==
    CASE r.ctx = "inv" -> AfterInv(r)
      [] r.ctx = "pl" -> StartBS(r)
      [] OTHER -> EndRequest(r)

\* a pipeline's outer catch: console.error, the function returns normally
PipelineAbort(r) == PipelineEnd([r EXCEPT !.failed = @ \cup {r.ctx}])

\* xero.accountingApi.getInvoices(xero.tenants[0].tenantId): with no tenant
\* the argument throws a TypeError before any request is made
CallInvoices(r) ==
    IF tenants = 0 THEN PipelineAbort([r EXCEPT !.ctx = "inv"])
    ELSE [r EXCEPT !.pc = "aw_remote", !.ctx = "inv", !.remote = @ \cup {"inv"}]

StartInv(r) == IF Expired THEN IssueRefresh(r, "inv") ELSE CallInvoices(r)

\* next(): the route handler runs up to its first await
Route(r) ==
    CASE r.kind = "auth" -> Finish(r, 302)
      [] r.kind = "callback" -> [r EXCEPT !.pc = "aw_apiCallback", !.ctx = "cb"]
      [] r.kind = "stop" -> [r EXCEPT !.pc = "aw_deleteMany", !.ctx = "stop"]
      [] OTHER -> StartInv(r)

\* the refresh middleware
Middleware(r) == IF Expired THEN IssueRefresh(r, "mw") ELSE Route(r)

\* the code that follows "await saveTokenSet(tokenSet)" in context r.ctx
AfterSave(r) ==
    CASE r.ctx = "mw" -> Route(r)
      [] r.ctx = "cb" -> Finish(r, 302)
      [] r.ctx = "inv" -> CallInvoices(r)
      [] OTHER -> EnterLoop(r, r.ctx)

\* a variant in which a pipeline carries on after the failure
RefreshCatchCarryOn(r) ==
    CASE r.ctx = "mw" -> Route(r)
      [] r.ctx = "cb" -> Finish(r, 500)
      [] OTHER -> AfterSave(r)

\* refreshToken() or saveTokenSet() threw in context r.ctx
RefreshCatch(r) ==
    CASE r.ctx = "mw" -> Route(r)
      [] r.ctx = "cb" -> Finish(r, 500)
      [] OTHER -> PipelineAbort(r)

\* the loop moves to the next month, or leaves for the sheet update
NextMonth(r) ==
    IF r.month < LoopMonths THEN [r EXCEPT !.pc = "aw_delay", !.month = @ + 1]
    ELSE [r EXCEPT !.pc = "aw_clear"]

\* ------------------------------------------------------------ history
Window(r) == r.pc \in {"aw_findOne", "aw_docSave"}

Overlap(ps) == \E p, q \in Procs : p # q /\ Window(ps[p]) /\ Window(ps[q])

\* the next token set the identity provider issues: never the one the
\* client holds
NewTok == (tokenSet % MaxTok) + 1

\* the _id of the next document the database inserts
NewDoc ==
    CHOOSE d \in 1..(2 * Cardinality(Procs) + 1) :
        LET used == {x.id : x \in tokenDocs} \cup {procs[q].doc : q \in Procs}
        IN  d \notin used /\ \A u \in 1..(d - 1) : u \in used

\* handler p moves to r; the caller has set tokenSet' and tokenDocs'
Step(p, r) ==
    /\ procs' = [procs EXCEPT ![p] = Keep(r)]
    /\ saveOverlap' = ((saveOverlap /\ tokenDocs' # {}) \/ Overlap(procs'))
    /\ expired' = IF tokenSet' = tokenSet THEN expired ELSE {}
    /\ UNCHANGED <<hist, repVars, sheetVars>>

\* ------------------------------------------------------------ actions
\* the server has started: no token set, no handler in flight
MainInit ==
    /\ tokenSet = 0
    /\ tenants = 0
    /\ tokenDocs = {}
    /\ expired = {}
    /\ procs = [p \in Procs |-> IdleProc]
    /\ stopped = FALSE
    /\ saveOverlap = FALSE

\* no report function is running
RepRest ==
    /\ fn = "none"
    /\ rpc = "done"
    /\ idx = 1
    /\ zeroProfitMonthsCount = 0
    /\ zeroNetAssetsCount = 0
    /\ stopProcessing = FALSE
    /\ processedMonths = {}
    /\ formattedRows = <<>>
    /\ uniqueKeys = <<>>
    /\ sectionDataMap = <<>>
    /\ headerValues = <<>>
    /\ zeroRun = 0
    /\ odd = 0
    /\ answers = <<>>
    /\ plStopped = FALSE

SheetRest ==
    /\ invoices = <<>>
    /\ accrecInvoices = <<>>
    /\ rows = <<>>
    /\ sheetValues = [f \in Pipes |-> {}]

Init == MainInit /\ hist = FALSE /\ RepRest /\ SheetRest

\* a handler record as it starts
NewProc(k) == [IdleProc EXCEPT !.kind = k, !.startExp = Expired]

\* an HTTP request arrives and passes the refresh middleware
Request(p, k) ==
    /\ p # 0
    /\ ~Active(procs[p])
    /\ UNCHANGED <<tokenSet, tenants, tokenDocs, stopped>>
    /\ Step(p, Middleware(NewProc(k)))

\* the scheduled job fires: fetchAndUpdateInvoices()
CronFire ==
    /\ ~Active(procs[0])
    /\ UNCHANGED <<tokenSet, tenants, tokenDocs, stopped>>
    /\ Step(0, StartInv(NewProc("cron")))

\* time passes: the token set the client holds expires (the code never
\* reads the expires_at of a stored document); a token set outlives the
\* saveTokenSet call that stores it
Expire ==
    /\ tokenSet # 0 /\ tokenSet \notin expired
    /\ \A q \in Procs : procs[q].tok # tokenSet
    /\ expired' = expired \cup {tokenSet}
    /\ procs' = [q \in Procs |->
                    IF Active(procs[q]) THEN Keep([procs[q] EXCEPT !.expInRun = TRUE])
                    ELSE procs[q]]
    /\ UNCHANGED <<tokenSet, tenants, tokenDocs, stopped, saveOverlap, hist, repVars, sheetVars>>

\* xero.refreshToken() resolves: the client holds the new token set, and
\* saveTokenSet(tokenSet) starts with await xero.updateTenants()
RefreshOk(p) ==
    /\ procs[p].pc = "aw_refresh"
    /\ tokenSet' = NewTok
    /\ UNCHANGED <<tenants, tokenDocs, stopped>>
    /\ Step(p, [procs[p] EXCEPT !.pc = "aw_updateTenants", !.tok = NewTok,
                                !.noTenantIn = "none"])

\* xero.refreshToken() rejects
RefreshFail(p) ==
    /\ procs[p].pc = "aw_refresh"
    /\ UNCHANGED <<tokenSet, tenants, tokenDocs, stopped>>
    /\ Step(p, RefreshCatch([procs[p] EXCEPT !.refreshFailed = @ \cup {procs[p].ctx}]))

\* xero.apiCallback(req.url) resolves or rejects
ApiCallback(p, ok) ==
    /\ procs[p].pc = "aw_apiCallback"
    /\ tokenSet' = IF ok THEN NewTok ELSE tokenSet
    /\ UNCHANGED <<tenants, tokenDocs, stopped>>
    /\ Step(p, IF ok THEN [procs[p] EXCEPT !.pc = "aw_updateTenants", !.tok = NewTok,
                                           !.noTenantIn = "none"]
               ELSE Finish(procs[p], 500))

\* a variant in which saveTokenSet returns where it should throw
SaveThrowReturns(r) == AfterSave([r EXCEPT !.tok = 0, !.doc = 0])

\* saveTokenSet gives up: the exception reaches the caller's catch
SaveThrow(r) == RefreshCatch([r EXCEPT !.tok = 0, !.doc = 0])

\* saveTokenSet returns
SaveReturn(r) == AfterSave([r EXCEPT !.tok = 0, !.doc = 0])

\* saveTokenSet: updateTenants() resolves with n tenants; with none the
\* function throws, otherwise it goes on to await Token.findOne()
UpdateTenants(p, n) ==
    /\ procs[p].pc = "aw_updateTenants"
    /\ tenants' = n
    /\ UNCHANGED <<tokenSet, tokenDocs, stopped>>
    /\ Step(p, IF n = 0 THEN SaveThrow([procs[p] EXCEPT !.noTenantIn = procs[p].ctx])
               ELSE [procs[p] EXCEPT !.pc = "aw_findOne"])

\* saveTokenSet: updateTenants() rejects
UpdateTenantsFail(p) ==
    /\ procs[p].pc = "aw_updateTenants"
    /\ UNCHANGED <<tokenSet, tenants, tokenDocs, stopped>>
    /\ Step(p, SaveThrow(procs[p]))

\* saveTokenSet: Token.findOne() resolves; tokenDoc.save() or
\* new Token({...}).save() is issued
FindOneReturns(p) ==
    /\ procs[p].pc = "aw_findOne"
    /\ UNCHANGED <<tokenSet, tenants, tokenDocs, stopped>>
    /\ Step(p, [procs[p] EXCEPT !.pc = "aw_docSave", !.doc = FindOne(tokenDocs)])

\* a variant that inserts even when a document was found
SaveDocsAlwaysInsert(docs, doc, tok, newId) ==
    docs \cup {[id |-> newId, tok |-> tok]}

\* what the save() issued by saveTokenSet leaves in the collection: an
\* update of the document found, an insert when none was found
SaveDocs(docs, doc, tok, newId) ==
    IF doc # 0
    THEN {IF d.id = doc THEN [d EXCEPT !.tok = tok] ELSE d : d \in docs}
    ELSE docs \cup {[id |-> newId, tok |-> tok]}

\* saveTokenSet: the save() resolves (an update of a document deleted in
\* the meantime rejects and writes nothing)
DocSave(p) ==
    /\ procs[p].pc = "aw_docSave"
    /\ LET r == procs[p]
           gone == r.doc # 0 /\ r.doc \notin {d.id : d \in tokenDocs}
       IN  /\ tokenDocs' = SaveDocs(tokenDocs, r.doc, r.tok, NewDoc)
           /\ stopped' = IF r.ctx = "cb" /\ ~gone THEN FALSE ELSE stopped
           /\ UNCHANGED <<tokenSet, tenants>>
           /\ Step(p, IF gone THEN SaveThrow(r) ELSE SaveReturn(r))

\* saveTokenSet: the save() rejects (database error)
DocSaveFail(p) ==
    /\ procs[p].pc = "aw_docSave"
    /\ UNCHANGED <<tokenSet, tenants, tokenDocs, stopped>>
    /\ Step(p, SaveThrow(procs[p]))

\* POST /stop: Token.deleteMany() resolves or rejects
DeleteMany(p, ok) ==
    /\ procs[p].pc = "aw_deleteMany"
    /\ tokenDocs' = IF ok THEN {} ELSE tokenDocs
    /\ stopped' = IF ok THEN TRUE ELSE stopped
    /\ UNCHANGED <<tokenSet, tenants>>
    /\ Step(p, Finish(procs[p], IF ok THEN 200 ELSE 500))

\* a month loop: the inter-call delay is over, the report is requested
\* (xero.tenants[0].tenantId throws inside the month's try when no tenant)
Delay(p) ==
    /\ procs[p].pc = "aw_delay"
    /\ UNCHANGED <<tokenSet, tenants, tokenDocs, stopped>>
    /\ Step(p, IF tenants = 0
               THEN NextMonth([procs[p] EXCEPT !.failed = @ \cup {procs[p].ctx}])
               ELSE [procs[p] EXCEPT !.pc = "aw_remote", !.remote = @ \cup {procs[p].ctx}])

\* the accounting API answers a request made with a valid token set
RemoteOk(p) ==
    /\ procs[p].pc = "aw_remote"
    /\ tokenSet # 0 /\ tokenSet \notin expired
    /\ UNCHANGED <<tokenSet, tenants, tokenDocs, stopped>>
    /\ Step(p, IF procs[p].ctx = "inv" THEN [procs[p] EXCEPT !.pc = "aw_clear"]
               ELSE NextMonth(procs[p]))

\* the accounting API call rejects, with code ETIMEDOUT when timeout. The
\* invoice catch evaluates res.status(...), res is not defined there, and
\* the ReferenceError lands in the outer catch; a month's catch only logs.
RemoteFail(p, timeout) ==
    /\ procs[p].pc = "aw_remote"
    /\ UNCHANGED <<tokenSet, tenants, tokenDocs, stopped>>
    /\ Step(p, IF procs[p].ctx = "inv"
               THEN PipelineAbort([procs[p] EXCEPT !.timedOut = timeout])
               ELSE NextMonth([procs[p] EXCEPT !.failed = @ \cup {procs[p].ctx}]))

\* a spreadsheet call resolves: clear, then values.update, then the header
\* format, then the pipeline is over
SheetOk(p) ==
    /\ procs[p].pc \in {"aw_clear", "aw_write", "aw_format"}
    /\ UNCHANGED <<tokenSet, tenants, tokenDocs, stopped>>
    /\ Step(p, CASE procs[p].pc = "aw_clear" -> [procs[p] EXCEPT !.pc = "aw_write"]
                 [] procs[p].pc = "aw_write" -> [procs[p] EXCEPT !.pc = "aw_format"]
                 [] OTHER -> PipelineEnd(procs[p]))

\* a spreadsheet call rejects
SheetFail(p) ==
    /\ procs[p].pc \in {"aw_clear", "aw_write", "aw_format"}
    /\ UNCHANGED <<tokenSet, tenants, tokenDocs, stopped>>
    /\ Step(p, PipelineAbort(procs[p]))

Next ==
    \/ \E p \in Procs, k \in {"auth", "callback", "balance", "stop"} : Request(p, k)
    \/ CronFire
    \/ Expire
    \/ \E p \in Procs : RefreshOk(p)
    \/ \E p \in Procs : RefreshFail(p)
    \/ \E p \in Procs, ok \in BOOLEAN : ApiCallback(p, ok)
    \/ \E p \in Procs, n \in 0..1 : UpdateTenants(p, n)
    \/ \E p \in Procs : UpdateTenantsFail(p)
    \/ \E p \in Procs : FindOneReturns(p)
    \/ \E p \in Procs : DocSave(p)
    \/ \E p \in Procs : DocSaveFail(p)
    \/ \E p \in Procs, ok \in BOOLEAN : DeleteMany(p, ok)
    \/ \E p \in Procs : Delay(p)
    \/ \E p \in Procs : RemoteOk(p)
    \/ \E p \in Procs, timeout \in BOOLEAN : RemoteFail(p, timeout)
    \/ \E p \in Procs : SheetOk(p)
    \/ \E p \in Procs : SheetFail(p)

Spec == Init /\ [][Next]_vars

\* C1 as stated: under any interleaving of the handlers at their awaits the
\* Token collection holds at most one document.
C1_AtMostOneAnyInterleaving == Cardinality(tokenDocs) <= 1

\* C1 amended: as long as no two saveTokenSet calls have overlapped between
\* their findOne() and their save() since the collection was last empty, the
\* collection holds at most one document; and a document is only ever added
\* by a saveTokenSet whose findOne() returned none.
C1_AtMostOneWithoutOverlap ==
    /\ [](~saveOverlap => Cardinality(tokenDocs) <= 1)
    /\ [][Cardinality(tokenDocs') > Cardinality(tokenDocs) =>
            /\ Cardinality(tokenDocs') = Cardinality(tokenDocs) + 1
            /\ \E p \in Procs : procs[p].pc = "aw_docSave" /\ procs[p].doc = 0]_vars

\* a saveTokenSet has found the single stored document, written by an
\* earlier saveTokenSet, and is about to update it
C1_Witness ==
    /\ ~saveOverlap
    /\ Cardinality(tokenDocs) = 1
    /\ \E p \in Procs : /\ procs[p].pc = "aw_docSave"
                        /\ procs[p].doc \in {d.id : d \in tokenDocs}

\* C3 as stated: documents are created by the authorization callback only,
\* so from a successful POST /stop until the next callback saves its token
\* set the Token collection is empty.
C3_NoCredentialAfterStop == stopped => tokenDocs = {}

\* ---------------------------------------------- one handler at a time
\* The same handlers, started only when no other is in flight, with each
\* handler's history recorded; the records of finished handlers are dropped
\* when the next one starts.
InitSeq == MainInit /\ hist = TRUE /\ RepRest /\ SheetRest

StartSeq(p, r) ==
    /\ \A q \in Procs : ~Active(procs[q])
    /\ procs' = [q \in Procs |-> IF q = p THEN r ELSE IdleProc]
    /\ UNCHANGED <<tokenSet, tenants, tokenDocs, expired, stopped, saveOverlap,
                   hist, repVars, sheetVars>>

RequestSeq(p, k) == p # 0 /\ StartSeq(p, Middleware(NewProc(k)))

CronFireSeq == StartSeq(0, StartInv(NewProc("cron")))

NextSeq ==
    \/ \E p \in Procs, k \in {"auth", "callback", "balance", "stop"} : RequestSeq(p, k)
    \/ CronFireSeq
    \/ Expire
    \/ \E p \in Procs : RefreshOk(p)
    \/ \E p \in Procs : RefreshFail(p)
    \/ \E p \in Procs, ok \in BOOLEAN : ApiCallback(p, ok)
    \/ \E p \in Procs, n \in 0..1 : UpdateTenants(p, n)
    \/ \E p \in Procs : UpdateTenantsFail(p)
    \/ \E p \in Procs : FindOneReturns(p)
    \/ \E p \in Procs : DocSave(p)
    \/ \E p \in Procs : DocSaveFail(p)
    \/ \E p \in Procs, ok \in BOOLEAN : DeleteMany(p, ok)
    \/ \E p \in Procs : Delay(p)
    \/ \E p \in Procs : RemoteOk(p)
    \/ \E p \in Procs, timeout \in BOOLEAN : RemoteFail(p, timeout)
    \/ \E p \in Procs : SheetOk(p)
    \/ \E p \in Procs : SheetFail(p)

SpecSeq == InitSeq /\ [][NextSeq]_vars

Min(a, b) == IF a < b THEN a ELSE b

\* a GET /BalanceSheet request that has been answered
DoneBalance(p) == procs[p].kind = "balance" /\ procs[p].pc = "done"

C4_NoTenantThrowsBeforeWrite ==
    [][\A p \in Procs :
        /\ procs[p].pc = "aw_updateTenants"
        /\ procs'[p].pc # "aw_updateTenants"
        /\ tenants' = 0
        => /\ tokenDocs' = tokenDocs
           /\ procs'[p].pc # "aw_findOne"
           /\ procs[p].ctx = "cb" => procs'[p].pc = "done" /\ procs'[p].resp = 500]_vars

\* a callback has failed on the empty tenant list while a document written
\* by an earlier callback is stored
C4_Witness ==
    \E p \in Procs : /\ procs[p].kind = "callback" /\ procs[p].pc = "done"
                     /\ procs[p].noTenantIn = "cb" /\ procs[p].resp = 500
                     /\ tokenDocs # {}

\* C5 as stated: a pipeline whose refresh call failed still issues its
\* remote report call.
C5_PipelineCarriesOn ==
    \A p \in Procs :
        procs[p].pc = "done" => (procs[p].refreshFailed \cap Pipes) \subseteq procs[p].remote

\* C5 amended: a failed refresh call is only logged. In the middleware the
\* route handler still runs and answers; in a pipeline the failure ends that
\* pipeline without its remote report call, and the request goes on with the
\* next pipeline.
C5_RefreshFailureAbortsPipeline ==
    \A p \in Procs :
        /\ (procs[p].refreshFailed \cap Pipes) \cap procs[p].remote = {}
        /\ (procs[p].refreshFailed \cap Pipes) \subseteq procs[p].failed
        /\ procs[p].pc = "done" /\ "mw" \in procs[p].refreshFailed => procs[p].resp # 0
        /\ DoneBalance(p) => procs[p].resp = 200

\* the invoice pipeline's refresh failed, and the request still went on to
\* the balance-sheet report call and was answered
C5_Witness ==
    \E p \in Procs : /\ DoneBalance(p)
                     /\ "inv" \in procs[p].refreshFailed
                     /\ "bs" \in procs[p].remote

\* C10 as stated: a GET /BalanceSheet request in which a pipeline failed is
\* answered 504 (invoice call timed out) or 500, and with the page (200)
\* only when nothing failed.
C10_FailureIsAnError ==
    \A p \in Procs :
        DoneBalance(p) =>
            IF procs[p].failed = {} THEN procs[p].resp = 200
            ELSE IF procs[p].timedOut THEN procs[p].resp = 504
            ELSE procs[p].resp = 500

\* ====================================================== the report loops
NumMonths == 12     \* months from January 2000 to "today"
MaxOdd == 2         \* months of one loop not answered by the all-zero report
ZeroMonthsLimit == 10

MonthStart ==
    <<"2000-01-02", "2000-02-02", "2000-03-02", "2000-04-02", "2000-05-02",
      "2000-06-02", "2000-07-02", "2000-08-02", "2000-09-02", "2000-10-02",
      "2000-11-02", "2000-12-02", "2001-01-02", "2001-02-02", "2001-03-02",
      "2001-04-02">>

MonthEnd ==
    <<"2000-02-01", "2000-03-01", "2000-04-01", "2000-05-01", "2000-06-01",
      "2000-07-01", "2000-08-01", "2000-09-01", "2000-10-01", "2000-11-01",
      "2000-12-01", "2001-01-01", "2001-02-01", "2001-03-01", "2001-04-01",
      "2001-05-01">>

\* the period label the accounting API puts in a report's header row
HeaderDate ==
    <<"31 Jan 2000", "29 Feb 2000", "31 Mar 2000", "30 Apr 2000",
      "31 May 2000", "30 Jun 2000", "31 Jul 2000", "31 Aug 2000",
      "30 Sep 2000", "31 Oct 2000", "30 Nov 2000", "31 Dec 2000",
      "31 Jan 2001", "28 Feb 2001", "31 Mar 2001", "30 Apr 2001">>

\* getMonthsRange(): one {start, end} per month since January 2000, the
\* latest month first; m is the month's ordinal
getMonthsRange ==
    [i \in 1..NumMonths |->
        LET m == NumMonths + 1 - i
        IN  [m |-> m, start |-> MonthStart[m], end |-> MonthEnd[m]]]

dates == getMonthsRange

\* parseFloat on the cell values that occur; NaN for anything else
NaN == [nan |-> TRUE, num |-> 0]

Num(n) == [nan |-> FALSE, num |-> n]

parseFloat(v) ==
    CASE v = "0.00" -> Num(0)
      [] v = "20.00" -> Num(20)
      [] v = "30.00" -> Num(30)
      [] v = "50.00" -> Num(50)
      [] v = "70.00" -> Num(70)
      [] v = "100.00" -> Num(100)
      [] OTHER -> NaN

\* a variant that tests the cell's text and not its number
NotZeroText(v) == v # ""

\* value !== 0.0, where value = cell ? parseFloat(cell) : NaN
NotZero(v) ==
    LET value == IF v # "" THEN parseFloat(v) ELSE NaN
    IN  value.nan \/ value.num # 0

\* ---- the rows of a report as the accounting API returns them
Header(label) ==
    [rowType |-> "Header", title |-> "", cells |-> <<"", label>>, rows |-> <<>>]

Section(title, subRows) ==
    [rowType |-> "Section", title |-> title, cells |-> <<>>, rows |-> subRows]

Row(label, value) == [rowType |-> "Row", cells |-> <<label, value>>]

SummaryRow(label, value) == [rowType |-> "SummaryRow", cells |-> <<label, value>>]

\* The answers to getReportProfitAndLoss for month m. signal says whether
\* the report carries a Gross Profit or Net Profit line that is not zero
\* (a line without a value is not zero: it parses to NaN).
PLZero(m) ==
    [signal |-> FALSE,
     reports |-> << [rows |-> <<Header(HeaderDate[m]),
                                Section("Income", <<Row("Sales", "0.00")>>),
                                Section("", <<Row("Gross Profit", "0.00")>>),
                                Section("", <<Row("Net Profit", "0.00")>>)>>] >>]

PLFull(m) ==
    [signal |-> TRUE,
     reports |-> << [rows |-> <<Header(HeaderDate[m]),
                                Section("Income", <<Row("Sales", "100.00")>>),
                                Section("", <<Row("Gross Profit", "100.00")>>),
                                Section("Less Operating Expenses",
                                        <<Row("Rent", "30.00"),
                                          SummaryRow("Total Operating Expenses", "30.00")>>),
                                Section("", <<Row("Net Profit", "70.00")>>)>>] >>]

PLNoValue(m) ==
    [signal |-> TRUE,
     reports |-> << [rows |-> <<Header(HeaderDate[m]),
                                Section("", <<Row("Gross Profit", "")>>),
                                Section("", <<Row("Net Profit", "0.00")>>)>>] >>]

PLNoHeader(m) ==
    [signal |-> TRUE,
     reports |-> << [rows |-> <<Section("Income", <<Row("Sales", "20.00")>>),
                                Section("", <<Row("Gross Profit", "20.00")>>)>>] >>]

\* a report whose last section holds a line of a single cell: reading the
\* line's second cell throws, after the Gross Profit section was processed
PLBroken(m) ==
    [signal |-> TRUE,
     reports |-> << [rows |-> <<Header(HeaderDate[m]),
                                Section("Income", <<Row("Sales", "100.00")>>),
                                Section("", <<Row("Gross Profit", "100.00")>>),
                                Section("", <<[rowType |-> "Row",
                                               cells |-> <<"Net Profit">>]>>)>>] >>]

PLKinds == {"zero", "full", "novalue", "noheader"}

PLResponse(kind, m) ==
    CASE kind = "zero" -> PLZero(m)
      [] kind = "full" -> PLFull(m)
      [] kind = "novalue" -> PLNoValue(m)
      [] kind = "broken" -> PLBroken(m)
      [] OTHER -> PLNoHeader(m)

\* The answers to getReportBalanceSheet for month m; signal: a Net Assets
\* line that is not zero.
BSZero(m) ==
    [signal |-> FALSE,
     reports |-> << [rows |-> <<Header(HeaderDate[m]),
                                Section("Assets", <<Row("Bank", "0.00")>>),
                                Section("", <<Row("Net Assets", "0.00")>>)>>] >>]

BSFull(m) ==
    [signal |-> TRUE,
     reports |-> << [rows |-> <<Header(HeaderDate[m]),
                                Section("Assets",
                                        <<Row("Bank", "50.00"),
                                          SummaryRow("Total Assets", "50.00")>>),
                                Section("", <<Row("Net Assets", "50.00")>>),
                                Section("Equity",
                                        <<Row("Retained Earnings", "50.00")>>)>>] >>]

BSOther(m) ==
    [signal |-> TRUE,
     reports |-> << [rows |-> <<Header(HeaderDate[m]),
                                Section("Assets",
                                        <<Row("Bank", "20.00"),
                                          Row("Receivables", "")>>),
                                Section("", <<Row("Net Assets", "20.00")>>)>>] >>]

BSNoHeader(m) ==
    [signal |-> TRUE,
     reports |-> << [rows |-> <<Section("Assets", <<Row("Bank", "20.00")>>),
                                Section("", <<Row("Net Assets", "20.00")>>)>>] >>]

\* the same for the balance sheet, after the Net Assets section
BSBroken(m) ==
    [signal |-> TRUE,
     reports |-> << [rows |-> <<Header(HeaderDate[m]),
                                Section("Assets", <<Row("Bank", "50.00")>>),
                                Section("", <<Row("Net Assets", "50.00")>>),
                                Section("", <<[rowType |-> "Row",
                                               cells |-> <<"Net Liabilities">>]>>)>>] >>]

BSKinds == {"zero", "full", "other", "noheader"}

BSResponse(kind, m) ==
    CASE kind = "zero" -> BSZero(m)
      [] kind = "full" -> BSFull(m)
      [] kind = "other" -> BSOther(m)
      [] kind = "broken" -> BSBroken(m)
      [] OTHER -> BSNoHeader(m)

\* ---- the walk over one report
\* an untitled section holds a Row labelled in labels whose value !== 0.0
HasSignal(row, labels) ==
    \E j \in 1..Len(row.rows) :
        LET subRow == row.rows[j]
        IN  /\ subRow.rowType = "Row"
            /\ Len(subRow.cells) > 0
            /\ subRow.cells[1] \in labels
            /\ NotZero(subRow.cells[2])

\* subRow.cells[1].value on a Row of a single cell: a TypeError
Throws(row) ==
    \E j \in 1..Len(row.rows) :
        row.rows[j].rowType = "Row" /\ Len(row.rows[j].cells) = 1

\* cells[j]?.value || ""
CellValue(cells, j) == IF Len(cells) >= j THEN cells[j] ELSE ""

RECURSIVE PLSubRows(_, _, _)
\* the rows pushed for the sub-rows k.. of a section
PLSubRows(currentMonth, subRows, k) ==
    IF k > Len(subRows) THEN <<>>
    ELSE (IF subRows[k].rowType \in {"Row", "SummaryRow"}
          THEN << <<currentMonth>> \o subRows[k].cells >>
          ELSE <<>>)
         \o PLSubRows(currentMonth, subRows, k + 1)

RECURSIVE PLFlatten(_, _, _)
\* the rows pushed for the rows k.. of a report: [month, title] for a titled
\* section, then [month, ...cells] for each of its Row and SummaryRow
PLFlatten(currentMonth, reportRows, k) ==
    IF k > Len(reportRows) THEN <<>>
    ELSE (IF reportRows[k].rowType = "Section"
          THEN (IF reportRows[k].title # "" THEN << <<currentMonth, reportRows[k].title>> >>
                ELSE <<>>)
               \o PLSubRows(currentMonth, reportRows[k].rows, 1)
          ELSE <<>>)
         \o PLFlatten(currentMonth, reportRows, k + 1)

RECURSIVE PLRows(_, _, _, _)
\* report.rows.forEach from row k on; st carries includeMonth, the counter,
\* processedMonths and formattedRows
PLRows(report, k, currentMonth, st) ==
    IF k > Len(report.rows) \/ st.threw THEN st
    ELSE LET row == report.rows[k]
             cur == IF row.rowType = "Header" /\ Len(row.cells) > 1
                    THEN row.cells[2] ELSE currentMonth
             scan == row.rowType = "Section" /\ row.title = ""
             threw == scan /\ Throws(row)
             hit == /\ scan /\ ~threw
                    /\ HasSignal(row, {"Gross Profit", "Net Profit"})
             new == cur # "" /\ cur \notin st.processed
             st2 == IF threw THEN [st EXCEPT !.threw = TRUE]
                    ELSE IF ~hit THEN st
                    ELSE [st EXCEPT !.includeMonth = TRUE,
                                    !.zero = 0,
                                    !.processed = IF new THEN @ \cup {cur} ELSE @,
                                    !.rows = IF new
                                             THEN @ \o PLFlatten(cur, report.rows, 1)
                                             ELSE @]
         IN  PLRows(report, k + 1, cur, st2)

RECURSIVE PLReports(_, _, _)
PLReports(reports, n, st) ==
    IF n > Len(reports) \/ st.threw THEN st
    ELSE PLReports(reports, n + 1, PLRows(reports[n], 1, "", st))

\* one iteration of the P&L loop on a report that arrived: the walk, the
\* counter, the two empty rows; a throw in the walk goes to the month's
\* catch and leaves what the walk had done
PLMonthResult(reports, zero, processed, pushed) ==
    LET st == PLReports(reports, 1, [includeMonth |-> FALSE, zero |-> zero,
                                     processed |-> processed, rows |-> pushed,
                                     threw |-> FALSE])
    IN  IF st.threw THEN st
        ELSE [st EXCEPT !.zero = IF ~st.includeMonth THEN @ + 1 ELSE @,
                        !.rows = @ \o << <<>>, <<>> >>]

\* uniqueKeys.add(key)
AddKey(keys, key) ==
    IF \E j \in 1..Len(keys) : keys[j] = key THEN keys ELSE Append(keys, key)

\* monthData[label] = value
Put(data, label, value) ==
    [l \in DOMAIN data \cup {label} |-> IF l = label THEN value ELSE data[l]]

RECURSIVE BSSubRows(_, _, _)
\* the sub-rows k.. of a section: their labels into keys, their values into
\* the month's data; acc = [keys, data]
BSSubRows(subRows, k, acc) ==
    IF k > Len(subRows) THEN acc
    ELSE BSSubRows(subRows, k + 1,
            IF subRows[k].rowType \in {"Row", "SummaryRow"}
            THEN [keys |-> AddKey(acc.keys, CellValue(subRows[k].cells, 1)),
                  data |-> Put(acc.data, CellValue(subRows[k].cells, 1),
                               CellValue(subRows[k].cells, 2))]
            ELSE acc)

RECURSIVE BSCollect(_, _, _)
\* the rows k.. of a report: section titles and line labels into keys
BSCollect(reportRows, k, acc) ==
    IF k > Len(reportRows) THEN acc
    ELSE BSCollect(reportRows, k + 1,
            IF reportRows[k].rowType = "Section"
            THEN BSSubRows(reportRows[k].rows, 1,
                    IF reportRows[k].title # ""
                    THEN [acc EXCEPT !.keys = AddKey(@, reportRows[k].title)]
                    ELSE acc)
            ELSE acc)

RECURSIVE BSRows(_, _, _, _)
BSRows(report, k, currentMonth, st) ==
    IF k > Len(report.rows) \/ st.threw THEN st
    ELSE LET row == report.rows[k]
             cur == IF row.rowType = "Header" /\ Len(row.cells) > 1
                    THEN row.cells[2] ELSE currentMonth
             scan == row.rowType = "Section" /\ row.title = ""
             threw == scan /\ Throws(row)
             hit == /\ scan /\ ~threw
                    /\ HasSignal(row, {"Net Assets"})
             new == cur # "" /\ cur \notin st.processed
             acc == BSCollect(report.rows, 1, [keys |-> st.keys, data |-> st.data])
             st2 == IF threw THEN [st EXCEPT !.threw = TRUE]
                    ELSE IF ~hit THEN st
                    ELSE [st EXCEPT !.includeMonth = TRUE,
                                    !.zero = 0,
                                    !.processed = IF new THEN @ \cup {cur} ELSE @,
                                    !.keys = IF new THEN acc.keys ELSE @,
                                    !.data = IF new THEN acc.data ELSE @]
         IN  BSRows(report, k + 1, cur, st2)

RECURSIVE BSReports(_, _, _)
BSReports(reports, n, st) ==
    IF n > Len(reports) \/ st.threw THEN st
    ELSE BSReports(reports, n + 1, BSRows(reports[n], 1, "", st))

\* one iteration of the balance-sheet loop on a report that arrived
BSMonthResult(reports, zero, processed, keys, data) ==
    LET st == BSReports(reports, 1, [includeMonth |-> FALSE, zero |-> zero,
                                     processed |-> processed, keys |-> keys,
                                     data |-> data, threw |-> FALSE])
    IN  IF st.threw THEN st
        ELSE [st EXCEPT !.zero = IF ~st.includeMonth THEN @ + 1 ELSE @]

\* the dates whose month stored at least one line
DataDates(map) ==
    LET HasData(d) == DOMAIN map[d.start] # {}
    IN  SelectSeq(dates, HasData)

\* headerValues: "Heads", then the end date of every month with data
BSHeader(map) ==
    <<"Heads">> \o [j \in 1..Len(DataDates(map)) |-> DataDates(map)[j].end]

\* a variant that pushes a cell only for the months that have the key
BSTableNoBlanks(keys, map) ==
    [k \in 1..Len(keys) |->
        LET Has(d) == keys[k] \in DOMAIN map[d.start]
            cols == SelectSeq(DataDates(map), Has)
        IN  <<keys[k]>> \o [j \in 1..Len(cols) |-> map[cols[j].start][keys[k]]]]

\* formattedRows: per key, the key, then per month with data the key's
\* value in that month or ""
BSTable(keys, map) ==
    [k \in 1..Len(keys) |->
        <<keys[k]>> \o
        [j \in 1..Len(DataDates(map)) |->
            LET monthData == map[DataDates(map)[j].start]
            IN  IF keys[k] \in DOMAIN monthData THEN monthData[keys[k]] ELSE ""]]

\* ---- the loops
EmptyMap == [d \in {dates[i].start : i \in 1..Len(dates)} |-> <<>>]

\* fetchAndUpdateProfitAndLoss is called (its token set is fresh)
InitReports ==
    /\ MainInit /\ hist = FALSE /\ SheetRest
    /\ fn = "pl"
    /\ rpc = "loop"
    /\ idx = 1
    /\ zeroProfitMonthsCount = 0
    /\ zeroNetAssetsCount = 0
    /\ stopProcessing = FALSE
    /\ processedMonths = {}
    /\ formattedRows = <<>>
    /\ uniqueKeys = <<>>
    /\ sectionDataMap = <<>>
    /\ headerValues = <<>>
    /\ zeroRun = 0
    /\ odd = 0
    /\ answers = <<>>
    /\ plStopped = FALSE

\* the loop is at its top with a month left and stopProcessing unset
AtMonth(f) ==
    /\ fn = f
    /\ rpc = "loop"
    /\ ~stopProcessing
    /\ idx <= Len(dates)

\* after an iteration: the next month, or out of the loop (break, or no
\* month left) and on to the first spreadsheet call
AfterMonth(stop) == IF stop \/ idx + 1 > Len(dates) THEN "aw_clear" ELSE "loop"

\* P&L: the report of dates[idx] arrives and is processed
PLMonth(kind) ==
    /\ AtMonth("pl")
    /\ kind # "zero" => odd < MaxOdd
    /\ LET resp == PLResponse(kind, dates[idx].m)
           st == PLMonthResult(resp.reports, zeroProfitMonthsCount,
                               processedMonths, formattedRows)
           stop == ~st.threw /\ st.zero = ZeroMonthsLimit
       IN  /\ zeroProfitMonthsCount' = st.zero
           /\ processedMonths' = st.processed
           /\ formattedRows' = st.rows
           /\ stopProcessing' = stop
           /\ rpc' = AfterMonth(stop)
           /\ zeroRun' = IF resp.signal THEN 0 ELSE zeroRun + 1
    /\ idx' = idx + 1
    /\ odd' = IF kind # "zero" THEN odd + 1 ELSE odd
    /\ answers' = Append(answers, kind)
    /\ UNCHANGED <<fn, zeroNetAssetsCount, uniqueKeys, sectionDataMap,
                   headerValues, plStopped, mainVars, sheetVars>>

\* P&L: the call for dates[idx] rejects, or its body has no reports: the
\* month's catch logs it
PLMonthFail ==
    /\ AtMonth("pl")
    /\ odd < MaxOdd
    /\ idx' = idx + 1
    /\ rpc' = AfterMonth(FALSE)
    /\ odd' = odd + 1
    /\ answers' = Append(answers, "fail")
    /\ UNCHANGED <<fn, zeroProfitMonthsCount, zeroNetAssetsCount, stopProcessing,
                   processedMonths, formattedRows, uniqueKeys, sectionDataMap,
                   headerValues, zeroRun, plStopped, mainVars, sheetVars>>

\* balance sheet: the report of dates[idx] arrives and is processed; out
\* of the loop headerValues and formattedRows are built
BSMonth(kind) ==
    /\ AtMonth("bs")
    /\ kind # "zero" => odd < MaxOdd
    /\ LET resp == BSResponse(kind, dates[idx].m)
           start == dates[idx].start
           st == BSMonthResult(resp.reports, zeroNetAssetsCount, processedMonths,
                               uniqueKeys, sectionDataMap[start])
           stop == ~st.threw /\ st.zero = ZeroMonthsLimit
           map == [sectionDataMap EXCEPT ![start] = st.data]
           out == AfterMonth(stop) = "aw_clear"
       IN  /\ zeroNetAssetsCount' = st.zero
           /\ processedMonths' = st.processed
           /\ uniqueKeys' = st.keys
           /\ sectionDataMap' = map
           /\ stopProcessing' = stop
           /\ rpc' = AfterMonth(stop)
           /\ headerValues' = IF out THEN BSHeader(map) ELSE headerValues
           /\ formattedRows' = IF out THEN BSTable(st.keys, map) ELSE formattedRows
           /\ zeroRun' = IF resp.signal THEN 0 ELSE zeroRun + 1
    /\ idx' = idx + 1
    /\ odd' = IF kind # "zero" THEN odd + 1 ELSE odd
    /\ answers' = Append(answers, kind)
    /\ UNCHANGED <<fn, zeroProfitMonthsCount, plStopped, mainVars, sheetVars>>

\* balance sheet: the call for dates[idx] rejects
BSMonthFail ==
    /\ AtMonth("bs")
    /\ odd < MaxOdd
    /\ idx' = idx + 1
    /\ rpc' = AfterMonth(FALSE)
    /\ odd' = odd + 1
    /\ answers' = Append(answers, "fail")
    /\ headerValues' = IF AfterMonth(FALSE) = "aw_clear"
                       THEN BSHeader(sectionDataMap) ELSE headerValues
    /\ formattedRows' = IF AfterMonth(FALSE) = "aw_clear"
                        THEN BSTable(uniqueKeys, sectionDataMap) ELSE formattedRows
    /\ UNCHANGED <<fn, zeroProfitMonthsCount, zeroNetAssetsCount, stopProcessing,
                   processedMonths, uniqueKeys, sectionDataMap, zeroRun,
                   plStopped, mainVars, sheetVars>>

\* the function running returns: after fetchAndUpdateProfitAndLoss,
\* GET /BalanceSheet calls fetchAndUpdateBalanceSheet, whose locals start
\* empty
Return ==
    IF fn = "pl"
    THEN /\ fn' = "bs"
         /\ rpc' = "loop"
         /\ idx' = 1
         /\ stopProcessing' = FALSE
         /\ processedMonths' = {}
         /\ formattedRows' = <<>>
         /\ uniqueKeys' = <<>>
         /\ sectionDataMap' = EmptyMap
         /\ headerValues' = <<>>
         /\ zeroRun' = 0
         /\ odd' = 0
         /\ answers' = <<>>
         /\ plStopped' = (stopProcessing /\ idx <= Len(dates))
         /\ zeroProfitMonthsCount' = 0
         /\ UNCHANGED <<zeroNetAssetsCount, mainVars, sheetVars>>
    ELSE /\ rpc' = "done"
         /\ UNCHANGED <<fn, idx, zeroProfitMonthsCount, zeroNetAssetsCount,
                        stopProcessing, processedMonths, formattedRows, uniqueKeys,
                        sectionDataMap, headerValues, zeroRun, odd, answers,
                        plStopped, mainVars, sheetVars>>

\* a spreadsheet call of the function running resolves: the clear, the
\* values.update, the header format
ReportSheetOk ==
    /\ rpc \in {"aw_clear", "aw_write", "aw_format"}
    /\ IF rpc = "aw_format" THEN Return
       ELSE /\ rpc' = IF rpc = "aw_clear" THEN "aw_write" ELSE "aw_format"
            /\ UNCHANGED <<fn, idx, zeroProfitMonthsCount, zeroNetAssetsCount,
                           stopProcessing, processedMonths, formattedRows,
                           uniqueKeys, sectionDataMap, headerValues, zeroRun, odd,
                           answers, plStopped, mainVars, sheetVars>>

\* a spreadsheet call rejects: the outer catch logs, the function returns
ReportSheetFail ==
    /\ rpc \in {"aw_clear", "aw_write", "aw_format"}
    /\ Return

NextReports ==
    \/ \E kind \in PLKinds : PLMonth(kind)
    \/ PLMonthFail
    \/ \E kind \in BSKinds : BSMonth(kind)
    \/ BSMonthFail
    \/ ReportSheetOk
    \/ ReportSheetFail

SpecReports == InitReports /\ [][NextReports]_vars

\* the same loops when a report may also be one whose processing throws
NextFaults ==
    \/ \E kind \in PLKinds \cup {"broken"} : PLMonth(kind)
    \/ PLMonthFail
    \/ \E kind \in BSKinds \cup {"broken"} : BSMonth(kind)
    \/ BSMonthFail
    \/ ReportSheetOk
    \/ ReportSheetFail

SpecFaults == InitReports /\ [][NextFaults]_vars

\* the counter of the loop that is running
ZeroCount == IF fn = "pl" THEN zeroProfitMonthsCount ELSE zeroNetAssetsCount

HasHeader(report) ==
    \E k \in 1..Len(report.rows) : report.rows[k].rowType = "Header"

\* the section titles and the line labels of a report
LabelsOf(report) ==
    {report.rows[k].title :
        k \in {n \in 1..Len(report.rows) :
                 report.rows[n].rowType = "Section" /\ report.rows[n].title # ""}}
    \cup
    UNION {{report.rows[k].rows[j].cells[1] : j \in 1..Len(report.rows[k].rows)} :
            k \in {n \in 1..Len(report.rows) : report.rows[n].rowType = "Section"}}

\* the <<label, value>> lines of a report
LinesOf(report) ==
    UNION {{report.rows[k].rows[j].cells : j \in 1..Len(report.rows[k].rows)} :
            k \in {n \in 1..Len(report.rows) : report.rows[n].rowType = "Section"}}

\* the report that answered month i of the balance-sheet loop
AnswerOf(i) == BSResponse(answers[i], dates[i].m).reports[1]

\* month i was included: its report arrived with a Net Assets line that is
\* not zero (and with the period label the loop keys the months on)
IncludedMonth(i) ==
    /\ answers[i] # "fail"
    /\ BSResponse(answers[i], dates[i].m).signal
    /\ HasHeader(AnswerOf(i))

IncludedMonths ==
    SelectSeq([i \in 1..Len(answers) |-> i], IncludedMonth)

TableBuilt == fn = "bs" /\ rpc \in {"aw_clear", "aw_write", "aw_format", "done"}

\* C7: the balance-sheet table is rectangular. Its header is "Heads" and
\* one month-end date per included month; it has exactly one row per
\* distinct label (section title or line label) of the included months;
\* every row is as long as the header; the cell of a label in a month's
\* column is the label's value in that month, and the empty string when
\* the month does not have the label.
C7_TableIsRectangular ==
    TableBuilt =>
        /\ headerValues = <<"Heads">> \o
               [j \in 1..Len(IncludedMonths) |-> dates[IncludedMonths[j]].end]
        /\ {formattedRows[k][1] : k \in 1..Len(formattedRows)}
               = UNION {LabelsOf(AnswerOf(IncludedMonths[j])) :
                          j \in 1..Len(IncludedMonths)}
        /\ \A k, n \in 1..Len(formattedRows) :
               k # n => formattedRows[k][1] # formattedRows[n][1]
        /\ \A k \in 1..Len(formattedRows) :
               /\ Len(formattedRows[k]) = Len(headerValues)
               /\ \A j \in 1..Len(IncludedMonths) :
                    LET lines == {l \in LinesOf(AnswerOf(IncludedMonths[j])) :
                                    l[1] = formattedRows[k][1]}
                    IN  IF lines = {} THEN formattedRows[k][j + 1] = ""
                        ELSE \E l \in lines : formattedRows[k][j + 1] = l[2]

\* a table of two included months, each with a label the other lacks
C7_Witness ==
    /\ TableBuilt
    /\ Len(headerValues) = 3
    /\ \E k, n \in 1..Len(formattedRows) :
          /\ formattedRows[k] = <<"Retained Earnings", "50.00", "">>
          /\ formattedRows[n] = <<"Receivables", "", "">>

\* ================================================ the invoice pipeline
MaxInvoices == 3    \* invoices in the answer of getInvoices (SpecInvoices)

InvoiceNumber == <<"INV-1", "INV-2", "INV-3", "INV-4", "INV-5">>

InvoiceDates == {"2024-01-15", "2024-02-10", "2024-03-05"}

\* new Date(date), as the day of the year 2024
DateValue(date) ==
    CASE date = "2024-01-15" -> 15
      [] date = "2024-02-10" -> 41
      [] date = "2024-03-05" -> 65
      [] OTHER -> 121

\* formatDate(date): en-GB, 2-digit day, short month, numeric year
formatDate(date) ==
    CASE date = "2024-01-15" -> "15 Jan 2024"
      [] date = "2024-02-10" -> "10 Feb 2024"
      [] date = "2024-03-05" -> "05 Mar 2024"
      [] date = "2024-04-30" -> "30 Apr 2024"
      [] OTHER -> "Invalid Date"

\* the n-th invoice of an answer; amounts are written as the text the
\* sheet shows
Invoice(n, type, status, date) ==
    [type |-> type,
     invoiceNumber |-> InvoiceNumber[n],
     reference |-> "PO",
     amountDue |-> IF status = "PAID" THEN "0" ELSE "100",
     amountPaid |-> IF status = "PAID" THEN "100" ELSE "0",
     contact |-> [name |-> "Acme"],
     date |-> date,
     dueDate |-> "2024-04-30",
     status |-> status,
     total |-> "100",
     currencyCode |-> "GBP"]

InvoiceKinds == {"ACCREC", "ACCPAY"} \X {"DRAFT", "AUTHORISED", "PAID"} \X InvoiceDates

\* the answer of getInvoices whose i-th invoice is of kind f[i]
InvoiceList(f) ==
    [i \in DOMAIN f |-> Invoice(i, f[i][1], f[i][2], f[i][3])]

\* a variant of the filter that looks at the type only
KeepsAnyStatus(invoice) == invoice.type = "ACCREC"

\* invoices.filter(...)
Keeps(invoice) ==
    /\ invoice.type = "ACCREC"
    /\ (invoice.status = "AUTHORISED" \/ invoice.status = "PAID")

\* the sort's comparator: new Date(b.date) - new Date(a.date)
Compare(a, b) == DateValue(b.date) - DateValue(a.date)

RECURSIVE Insert(_, _)
\* x put into the sorted s, behind the elements it does not have to precede
Insert(s, x) ==
    IF s = <<>> THEN <<x>>
    ELSE IF Compare(Head(s), x) <= 0 THEN <<Head(s)>> \o Insert(Tail(s), x)
    ELSE <<x>> \o s

RECURSIVE SortPrefix(_, _)
\* Array.prototype.sort with Compare on the first n elements: stable
SortPrefix(s, n) == IF n = 0 THEN <<>> ELSE Insert(SortPrefix(s, n - 1), s[n])

\* accrecInvoices.map(...)
InvoiceRow(invoice) ==
    <<invoice.type, invoice.invoiceNumber, invoice.reference, invoice.amountDue,
      invoice.amountPaid, invoice.contact.name, formatDate(invoice.date),
      formatDate(invoice.dueDate), invoice.status, invoice.total,
      invoice.currencyCode>>

InvoiceHeader ==
    <<"Invoice Type", "Invoice Number", "Invoice Refrence", "Amount Due",
      "Amount Paid", "ContactName", "Invoice Date", "Invoice DueDate",
      "Invoice Status", "Total", "Currency Code">>

PLHeader == <<"Date", "Head Name", "Amount">>

\* ---- the spreadsheet
ClearRowLimit == 1000

\* updateCells without rows, fields userEnteredValue: the values in the
\* range are cleared. The invoice and P&L requests name the whole sheet,
\* the balance-sheet request rows 0..1000 and columns 0..headerValues.length
ClearCells(cells, f, header) ==
    IF f = "bs"
    THEN {c \in cells : ~(c[1] <= ClearRowLimit /\ c[2] <= Len(header))}
    ELSE {}

\* the cells a values matrix written at A1 gives a value
CellsOf(values) ==
    UNION {{<<r, c, values[r][c]>> :
              c \in {n \in 1..Len(values[r]) : values[r][n] # ""}} :
              r \in 1..Len(values)}

\* values.update at A1, RAW: every cell the matrix covers takes the
\* matrix's value, the others keep theirs
WriteValues(cells, values) ==
    {c \in cells : ~(c[1] <= Len(values) /\ c[2] <= Len(values[c[1]]))}
    \cup CellsOf(values)

\* the rows the function running writes under its header
Table == IF fn = "inv" THEN rows ELSE formattedRows

\* the pipelines' locals at the call of f, and after a return (f = "none")
Locals(f) ==
    /\ fn' = f
    /\ idx' = 1
    /\ zeroProfitMonthsCount' = 0
    /\ zeroNetAssetsCount' = 0
    /\ stopProcessing' = FALSE
    /\ processedMonths' = {}
    /\ formattedRows' = <<>>
    /\ uniqueKeys' = <<>>
    /\ sectionDataMap' = IF f = "bs" THEN EmptyMap ELSE <<>>
    /\ headerValues' = <<>>
    /\ zeroRun' = 0
    /\ odd' = 0
    /\ answers' = <<>>
    /\ invoices' = <<>>
    /\ accrecInvoices' = <<>>
    /\ rows' = <<>>
    /\ UNCHANGED plStopped

\* the function running returns
Returns ==
    /\ Locals("none")
    /\ rpc' = "done"
    /\ UNCHANGED <<sheetValues, mainVars>>

\* fetchAndUpdateInvoices waits for getInvoices, the sheet is empty
InitInvoices ==
    /\ MainInit /\ hist = FALSE /\ SheetRest
    /\ fn = "inv"
    /\ rpc = "aw_remote"
    /\ idx = 1
    /\ zeroProfitMonthsCount = 0
    /\ zeroNetAssetsCount = 0
    /\ stopProcessing = FALSE
    /\ processedMonths = {}
    /\ formattedRows = <<>>
    /\ uniqueKeys = <<>>
    /\ sectionDataMap = <<>>
    /\ headerValues = <<>>
    /\ zeroRun = 0
    /\ odd = 0
    /\ answers = <<>>
    /\ plStopped = FALSE

\* getInvoices resolves with at most max invoices of the given kinds:
\* filter, sort, map, and the clear request is issued
GetInvoicesOk(max, kinds) ==
    /\ fn = "inv" /\ rpc = "aw_remote"
    /\ \E n \in 0..max : \E f \in [1..n -> kinds] :
          LET list == InvoiceList(f)
              kept == SelectSeq(list, Keeps)
              sorted == SortPrefix(kept, Len(kept))
          IN  /\ invoices' = list
              /\ accrecInvoices' = sorted
              /\ rows' = [k \in 1..Len(sorted) |-> InvoiceRow(sorted[k])]
    /\ rpc' = "aw_clear"
    /\ UNCHANGED <<fn, idx, zeroProfitMonthsCount, zeroNetAssetsCount,
                   stopProcessing, processedMonths, formattedRows, uniqueKeys,
                   sectionDataMap, headerValues, zeroRun, odd, answers,
                   plStopped, sheetValues, mainVars>>

\* getInvoices rejects: the inner catch, whose res is not defined, and the
\* outer catch
GetInvoicesFail ==
    /\ fn = "inv" /\ rpc = "aw_remote"
    /\ Returns

\* the clear request resolves; headerValues is set (the balance sheet's is
\* already) and values.update is issued
ClearOk ==
    /\ rpc = "aw_clear"
    /\ sheetValues' = [sheetValues EXCEPT ![fn] = ClearCells(@, fn, headerValues)]
    /\ headerValues' = CASE fn = "inv" -> InvoiceHeader
                         [] fn = "pl" -> PLHeader
                         [] OTHER -> headerValues
    /\ rpc' = "aw_write"
    /\ UNCHANGED <<fn, idx, zeroProfitMonthsCount, zeroNetAssetsCount,
                   stopProcessing, processedMonths, formattedRows, uniqueKeys,
                   sectionDataMap, zeroRun, odd, answers, plStopped,
                   invoices, accrecInvoices, rows, mainVars>>

\* values.update resolves; the header format request is issued
WriteOk ==
    /\ rpc = "aw_write"
    /\ sheetValues' = [sheetValues EXCEPT
                         ![fn] = WriteValues(@, <<headerValues>> \o Table)]
    /\ rpc' = "aw_format"
    /\ UNCHANGED <<fn, idx, zeroProfitMonthsCount, zeroNetAssetsCount,
                   stopProcessing, processedMonths, formattedRows, uniqueKeys,
                   sectionDataMap, headerValues, zeroRun, odd, answers,
                   plStopped, invoices, accrecInvoices, rows, mainVars>>

\* the format request resolves: the function returns
FormatOk ==
    /\ rpc = "aw_format"
    /\ Returns

\* a spreadsheet request rejects: the catch logs, the function returns
SheetCallFail ==
    /\ rpc \in {"aw_clear", "aw_write", "aw_format"}
    /\ Returns

NextInvoices ==
    \/ GetInvoicesOk(MaxInvoices, InvoiceKinds)
    \/ GetInvoicesFail
    \/ ClearOk
    \/ WriteOk
    \/ FormatOk
    \/ SheetCallFail

SpecInvoices == InitInvoices /\ [][NextInvoices]_vars

\* the invoices the sheet is meant to list
Wanted(invoice) == invoice.type = "ACCREC" /\ invoice.status \in {"AUTHORISED", "PAID"}

\* the invoice a written row was made from, by its number
SourceOf(row) ==
    invoices[CHOOSE i \in 1..Len(invoices) : invoices[i].invoiceNumber = row[2]]

\* values.update has resolved
InvoicesWritten == fn = "inv" /\ rpc = "aw_format"

\* C8: for every list of invoices with type ACCREC or ACCPAY and status
\* DRAFT, AUTHORISED or PAID, the rows written under the 11-column header
\* are exactly the ACCREC invoices with status AUTHORISED or PAID, each once,
\* none added; they are in descending order of invoice date; each row is
\* the 11 fields of its invoice in the header's order.
C8_InvoiceRows ==
    InvoicesWritten =>
        /\ Len(headerValues) = 11
        /\ sheetValues["inv"] = CellsOf(<<headerValues>> \o rows)
        /\ Len(rows) = Cardinality({i \in 1..Len(invoices) : Wanted(invoices[i])})
        /\ \A i \in 1..Len(invoices) :
              Wanted(invoices[i]) =>
                  \E k \in 1..Len(rows) : rows[k][2] = invoices[i].invoiceNumber
        /\ \A k \in 1..Len(rows) :
              \E i \in 1..Len(invoices) :
                  /\ Wanted(invoices[i])
                  /\ rows[k] = <<invoices[i].type, invoices[i].invoiceNumber,
                                 invoices[i].reference, invoices[i].amountDue,
                                 invoices[i].amountPaid, invoices[i].contact.name,
                                 formatDate(invoices[i].date),
                                 formatDate(invoices[i].dueDate),
                                 invoices[i].status, invoices[i].total,
                                 invoices[i].currencyCode>>
        /\ \A k, n \in 1..Len(rows) :
              k < n => DateValue(SourceOf(rows[k]).date) >= DateValue(SourceOf(rows[n]).date)

\* three invoices in ascending order of date, the middle one a bill: the
\* two others are written, the later one first
C8_Witness ==
    /\ InvoicesWritten
    /\ Len(invoices) = 3
    /\ invoices[2].type = "ACCPAY"
    /\ Len(rows) = 2
    /\ rows[1][2] = "INV-3" /\ rows[1][7] = "05 Mar 2024" /\ rows[1][9] = "PAID"
    /\ rows[2][2] = "INV-1" /\ rows[2][7] = "15 Jan 2024" /\ rows[2][9] = "AUTHORISED"

\* ========================================== runs over the same sheets
SheetMonths == 2    \* months of a loop that are answered (SpecSheet)
SheetInvoices == 1  \* invoices in the answer of getInvoices (SpecSheet)

\* a paid sales invoice of any date
SheetInvoiceKinds == {"ACCREC"} \X {"PAID"} \X InvoiceDates

\* how the first months of a loop are answered; the older months fail
LoopAnswers(kinds) ==
    UNION {[1..n -> kinds \cup {"fail"}] : n \in 0..SheetMonths}

RECURSIVE PLLoop(_, _, _)
\* the P&L loop over the months i.. answered by kinds
PLLoop(kinds, i, st) ==
    IF i > Len(kinds) THEN st
    ELSE PLLoop(kinds, i + 1,
            IF kinds[i] = "fail" THEN st
            ELSE PLMonthResult(PLResponse(kinds[i], dates[i].m).reports,
                               st.zero, st.processed, st.rows))

RECURSIVE BSLoop(_, _, _)
\* the balance-sheet loop over the months i.. answered by kinds
BSLoop(kinds, i, st) ==
    IF i > Len(kinds) THEN st
    ELSE BSLoop(kinds, i + 1,
            IF kinds[i] = "fail" THEN st
            ELSE LET start == dates[i].start
                     r == BSMonthResult(BSResponse(kinds[i], dates[i].m).reports,
                                        st.zero, st.processed, st.keys, st.map[start])
                 IN  [zero |-> r.zero, processed |-> r.processed, keys |-> r.keys,
                      map |-> [st.map EXCEPT ![start] = r.data]])

\* the cron task or GET /BalanceSheet calls pipeline f; the functions that
\* ran before have returned
Call(f) ==
    /\ fn = "none"
    /\ Locals(f)
    /\ rpc' = IF f = "inv" THEN "aw_remote" ELSE "loop"
    /\ UNCHANGED <<sheetValues, mainVars>>

\* the P&L loop runs to its end, its months answered by kinds, and the
\* clear request is issued
LoopPL(kinds) ==
    /\ fn = "pl" /\ rpc = "loop"
    /\ LET st == PLLoop(kinds, 1, [zero |-> 0, processed |-> {}, rows |-> <<>>])
       IN  /\ zeroProfitMonthsCount' = st.zero
           /\ processedMonths' = st.processed
           /\ formattedRows' = st.rows
    /\ idx' = Len(dates) + 1
    /\ answers' = kinds
    /\ rpc' = "aw_clear"
    /\ UNCHANGED <<fn, zeroNetAssetsCount, stopProcessing, uniqueKeys,
                   sectionDataMap, headerValues, zeroRun, odd, plStopped,
                   sheetVars, mainVars>>

\* the balance-sheet loop runs to its end, the table is built and the
\* clear request is issued
LoopBS(kinds) ==
    /\ fn = "bs" /\ rpc = "loop"
    /\ LET st == BSLoop(kinds, 1, [zero |-> 0, processed |-> {}, keys |-> <<>>,
                                   map |-> EmptyMap])
       IN  /\ zeroNetAssetsCount' = st.zero
           /\ processedMonths' = st.processed
           /\ uniqueKeys' = st.keys
           /\ sectionDataMap' = st.map
           /\ headerValues' = BSHeader(st.map)
           /\ formattedRows' = BSTable(st.keys, st.map)
    /\ idx' = Len(dates) + 1
    /\ answers' = kinds
    /\ rpc' = "aw_clear"
    /\ UNCHANGED <<fn, zeroProfitMonthsCount, stopProcessing, zeroRun, odd,
                   plStopped, sheetVars, mainVars>>

NextSheet ==
    \/ \E f \in Pipes : Call(f)
    \/ GetInvoicesOk(SheetInvoices, SheetInvoiceKinds)
    \/ GetInvoicesFail
    \/ \E kinds \in LoopAnswers({"full"}) : LoopPL(kinds)
    \/ \E kinds \in LoopAnswers({"full", "other"}) : LoopBS(kinds)
    \/ ClearOk
    \/ WriteOk
    \/ FormatOk
    \/ SheetCallFail

SpecSheet == Init /\ [][NextSheet]_vars

\* C9: after a run that cleared and wrote its sheet, the sheet holds the
\* values of [headerValues, ...rows] and nothing else, whatever it held
\* before.
C9_RunIsFullOverwrite ==
    fn \in Pipes /\ rpc = "aw_format"
        => sheetValues[fn] = CellsOf(<<headerValues>> \o Table)

\* C11 as stated: a month whose fetch or processing failed leaves no trace:
\* it adds no row and no cell, the month is not marked as processed, the
\* consecutive-zero counter keeps its value, and the loop goes on to the
\* next month (or to the sheet steps after the last one).
C11_FailedMonthLeavesNoTrace ==
    [][(/\ idx' = idx + 1
        /\ Len(answers') = Len(answers) + 1
        /\ answers'[Len(answers')] \in {"fail", "broken"})
       => /\ ZeroCount' = ZeroCount
          /\ processedMonths' = processedMonths
          /\ uniqueKeys' = uniqueKeys
          /\ sectionDataMap' = sectionDataMap
          /\ fn = "pl" => formattedRows' = formattedRows
          /\ rpc' = AfterMonth(FALSE)]_vars

\* position of a pipeline in the /BalanceSheet handler
Rank(c) ==
    CASE c = "inv" -> 1
      [] c = "pl" -> 2
      [] c = "bs" -> 3
      [] OTHER -> 0

\* the handlers that are inside one of the three pipelines
Running == {p \in Procs : Active(procs[p]) /\ procs[p].ctx \in Pipes}

\* C12 as stated: in every reachable state at most one pipeline run is in
\* progress, whatever the timing of /BalanceSheet requests and timer firings.
C12_AtMostOneRun == Cardinality(Running) <= 1

\* C12 amended: inside one handler the pipelines run one after the other in
\* the order invoices, profit and loss, balance sheet: a handler is in one
\* pipeline at a time, it leaves a pipeline only for the next one, it
\* enters at the invoices (which end at once when there is no tenant), only
\* a /BalanceSheet request goes beyond the invoices, and the request is
\* answered from the end of the balance sheet only. Nothing is said about
\* two handlers.
C12_PipelinesInOrderPerHandler ==
    [][\A p \in Procs :
         LET r == procs[p]
             q == procs'[p]
         IN  /\ (r.ctx \in Pipes /\ q.ctx \in Pipes)
                    => Rank(q.ctx) \in {Rank(r.ctx), Rank(r.ctx) + 1}
             /\ (r.ctx \notin Pipes /\ q.ctx \in Pipes)
                    => \/ q.ctx = "inv"
                       \/ q.ctx = "pl" /\ tenants = 0
             /\ q.ctx \in {"pl", "bs"} => q.kind = "balance"
             /\ (r.kind = "balance" /\ Active(r) /\ ~Active(q))
                    => r.ctx = "bs"]_vars

\* a /BalanceSheet request has reached its balance-sheet pipeline while a
\* timer firing is inside the invoice pipeline
C12_Witness ==
    /\ procs[0].kind = "cron" /\ procs[0].ctx = "inv" /\ Active(procs[0])
    /\ \E p \in Procs \ {0} :
           /\ procs[p].kind = "balance" /\ procs[p].ctx = "bs"
           /\ procs[p].pc \in {"aw_remote", "aw_clear", "aw_write"}

\* C13 as stated: from a successful POST /stop until the next successful
\* authorization callback, no firing of the hourly timer issues a refresh
\* call, a remote invoice request, or a clear or write on the invoice sheet.
\* (Handlers run one at a time here, so a firing in progress began after
\* the stop.)
C13_TimerSilentAfterStop ==
    stopped => ~(/\ procs[0].kind = "cron"
                 /\ procs[0].pc \in {"aw_refresh", "aw_remote",
                                      "aw_clear", "aw_write"})

\* C14 as stated: in the profit-and-loss rows the blank rows are exactly the
\* two-row separators after the included months: their number is twice the
\* number of included months, and a month that is fetched but not included
\* contributes no row.
C14_BlankRowsOnlyAfterIncluded ==
    fn = "pl" =>
        Cardinality({i \in 1..Len(formattedRows) : formattedRows[i] = <<>>})
            = 2 * Cardinality(processedMonths)

====
